---- MODULE Spec2Model ----
(***************************************************************************)
(* Drivorent: the booking / credit ledger held by the App component and    *)
(* the two views that drive it (VehicleDetailPage, ReservationsPage).      *)
(*                                                                         *)
(* React semantics that the model keeps:                                   *)
(*  - a handler defined inside a component closes over the state of the    *)
(*    render in which it was created.  A callback handed to setTimeout     *)
(*    therefore runs later with the bookings/vehicle/creditDeduction of    *)
(*    the render in which the timer was started;                           *)
(*  - setX(value) replaces the state, setX(prev => ...) reads the current  *)
(*    state;                                                               *)
(*  - navigating to another route unmounts the page component: its local   *)
(*    state is lost, its pending timers still fire, and their local        *)
(*    setState calls are no-ops;                                           *)
(*  - timers with the same delay fire in the order they were started.      *)
(* Money is in COP.  Every price in the data is a multiple of 10, for      *)
(* which the IEEE-754 product price * 0.9 is the exact integer 9*price/10. *)
(***************************************************************************)
EXTENDS Integers, Sequences, FiniteSets, TLC

VARIABLES
    vehicles,      \* App: useState(MOCK_VEHICLES), a sequence of vehicle records
    bookings,      \* App: useState(MOCK_BOOKINGS), a sequence of booking records
    userCredits,   \* App: useState(150000)
    now,           \* the value the last id-generating Date.now() returned
    page,          \* the route that is mounted
    detail,        \* local state of the mounted VehicleDetailPage
    resv,          \* local state of the mounted ReservationsPage
    mv,            \* local state of the mounted MyVehiclesPage
    timers,        \* pending setTimeout callbacks, in the order they were started
    payments,      \* history: number of payments started (handlePayment clicks)
    refundCount,   \* history: booking id -> number of refunds paid for that id
    apiKey,        \* whether the build carries process.env.API_KEY
    user,          \* App: useState({... isVerified: false, verificationDocs: {}})
    pinfo,         \* local state of the mounted PersonalInfoPage
    boxes,         \* local state of the mounted ImageUploadBox instances, by name
    runs,          \* handleFileChange calls suspended at an await
    bio,           \* handleRunBiometricCheck calls suspended at an await or timer
    urlSeq,        \* number of object URLs created (URL.createObjectURL)
    selections     \* history: number of files selected

vars == <<vehicles, bookings, userCredits, now, page, detail, resv, mv, timers,
          payments, refundCount, apiKey, user, pinfo, boxes, runs, bio, urlSeq,
          selections>>

\* the state behind the identity and upload views
idVars == <<apiKey, user, pinfo, boxes, runs, bio, urlSeq, selections>>

----------------------------------------------------------------------------
(* Bounds of the exploration *)

MaxPayments == 2         \* payments started per run of Spec
MaxLedgerPayments == 1   \* payments started per run of SpecLedger
MaxTripPayments == 1     \* payments started per run of SpecTrip
MaxSelections == 3       \* files selected per run
MaxDocSelections == 2    \* documents selected per run of SpecIdentity
MaxAttempts == 1         \* biometric checks in flight at a time
MaxAdded == 1        \* vehicles published through the wizard per run

\* what the owner types into the wizard's price field (type="number", no validation)
PriceInputs == {250000, -1000000}
\* what the renter types into the review dialog's comment field
Comments == {"", "bien"}

----------------------------------------------------------------------------
(* Program data *)

PENDING == "Pendiente"
CONFIRMED == "Confirmada"
IN_PROGRESS == "En curso"
FINISHED == "Finalizada"
CANCELLED == "Cancelada"

BookingStatus == {PENDING, CONFIRMED, IN_PROGRESS, FINISHED, CANCELLED}

\* Booking.review is optional; NoReview stands for its absence
NoReview == [rating |-> 0, comment |-> "", createdAt |-> 0]

\* the fields of Vehicle that the ledger reads; ids 'v1'..'v4' are 1..4 and
\* `v${Date.now()}` is the clock value
Veh(id, owner, price) ==
    [id |-> id, ownerId |-> owner, pricePerDay |-> price,
     isAvailable |-> TRUE, verificationStatus |-> "verified"]

MOCK_VEHICLES ==
    << Veh(1, "o1", 450000), Veh(2, "o2", 380000),
       Veh(3, "o3", 200000), Veh(4, "o1", 180000) >>

\* ids 'b1', 'b2' are 1, 2 and `b${Date.now()}` is the clock value; dates are
\* day numbers since the epoch: 2023-11-10, 2023-11-15, 2023-12-01, 2023-12-05
MOCK_BOOKINGS ==
    << [id |-> 1, vehicleId |-> 2, renterId |-> "current",
        startDate |-> 19671, endDate |-> 19676, totalPrice |-> 1900000,
        status |-> CONFIRMED, vehicleSnapshot |-> MOCK_VEHICLES[2],
        review |-> NoReview],
       [id |-> 2, vehicleId |-> 4, renterId |-> "current",
        startDate |-> 19692, endDate |-> 19696, totalPrice |-> 720000,
        status |-> PENDING, vehicleSnapshot |-> MOCK_VEHICLES[4],
        review |-> NoReview] >>

InitialCredits == 150000
UserId == "u1"
ClockStart == 10
MsPerDay == 86400000
Null == 0            \* null for selectedBookingId / showCancelConfirm

----------------------------------------------------------------------------
(* Helpers *)

MathMin(a, b) == IF a < b THEN a ELSE b
MathMax(a, b) == IF a > b THEN a ELSE b

\* Array.prototype.find: index of the first element with that id, 0 when none
FindIndex(seq, id) ==
    IF \E i \in DOMAIN seq : seq[i].id = id
    THEN CHOOSE i \in DOMAIN seq :
            /\ seq[i].id = id
            /\ \A j \in DOMAIN seq : seq[j].id = id => i <= j
    ELSE 0

HasReview(b) == b.review # NoReview

Ids(seq) == {seq[i].id : i \in DOMAIN seq}

\* new Date(t).toISOString().split('T')[0], as a day number
DateOf(t) == t \div MsPerDay

\* history bookkeeping: one more refund for id
Counted(f, id) ==
    [k \in DOMAIN f \cup {id} |-> IF k \in DOMAIN f THEN (IF k = id THEN f[k] + 1 ELSE f[k]) ELSE 1]

RemoveAt(seq, i) == [j \in 1..(Len(seq) - 1) |-> IF j < i THEN seq[j] ELSE seq[j + 1]]

----------------------------------------------------------------------------
(* VehicleDetailPage: the payment split computed on every render *)

\* mutant: the deduction is not capped at the price
CreditDeduction_Uncapped(useCredits, credits, price) ==
    IF useCredits THEN credits ELSE 0

CreditDeduction(useCredits, credits, price) ==
    IF useCredits THEN MathMin(credits, price) ELSE 0

CardCharge(price, creditDeduction) == price - creditDeduction

----------------------------------------------------------------------------
(* App: the handlers, as functions of the state their closure holds *)

\* the booking handleBook builds at clock value t
\* (variant: the trip of a new booking has started)
NewBooking_Started(vehicle, renter, t) ==
    [id |-> t, vehicleId |-> vehicle.id, renterId |-> renter,
     startDate |-> DateOf(t), endDate |-> DateOf(t + MsPerDay),
     totalPrice |-> vehicle.pricePerDay, status |-> IN_PROGRESS,
     vehicleSnapshot |-> vehicle, review |-> NoReview]

NewBooking(vehicle, renter, t) ==
    [id |-> t, vehicleId |-> vehicle.id, renterId |-> renter,
     startDate |-> DateOf(t), endDate |-> DateOf(t + MsPerDay),
     totalPrice |-> vehicle.pricePerDay, status |-> CONFIRMED,
     vehicleSnapshot |-> vehicle, review |-> NoReview]

\* setBookings([...bookings, newBooking]), bookings being the closure's list
handleBook(closureBookings, vehicle, renter, t) ==
    Append(closureBookings, NewBooking(vehicle, renter, t))

\* if (creditDeduction > 0) setUserCredits(prev => Math.max(0, prev - creditDeduction))
DeductCredits(prev, creditDeduction) ==
    IF creditDeduction > 0 THEN MathMax(0, prev - creditDeduction) ELSE prev

\* mutant: the stars are stored counted from zero
handleAddReview_FromZero(bs, id, rating, comment, t) ==
    [i \in DOMAIN bs |->
        IF bs[i].id = id
        THEN [bs[i] EXCEPT !.review =
                 [rating |-> rating - 1, comment |-> comment, createdAt |-> t]]
        ELSE bs[i]]

handleAddReview(bs, id, rating, comment, t) ==
    [i \in DOMAIN bs |->
        IF bs[i].id = id
        THEN [bs[i] EXCEPT !.review =
                 [rating |-> rating, comment |-> comment, createdAt |-> t]]
        ELSE bs[i]]

\* mutant: a status change also refreshes the booking's copy of the vehicle
handleUpdateStatus_Resnap(bs, id, status) ==
    [i \in DOMAIN bs |->
        IF bs[i].id = id
        THEN [bs[i] EXCEPT !.status = status,
                           !.vehicleSnapshot.isAvailable = FALSE]
        ELSE bs[i]]

\* (variant: the status of every booking is written)
handleUpdateStatus_All(bs, id, status) ==
    [i \in DOMAIN bs |-> [bs[i] EXCEPT !.status = status]]

handleUpdateStatus(bs, id, status) ==
    [i \in DOMAIN bs |->
        IF bs[i].id = id THEN [bs[i] EXCEPT !.status = status] ELSE bs[i]]

\* mutant: the whole price is refunded
RefundAmount_Full(totalPrice) == totalPrice

\* booking.totalPrice * 0.9
RefundAmount(totalPrice) == (totalPrice * 9) \div 10

\* handleCancelBooking: the credits after the call
CancelCredits(bs, id, prev) ==
    IF FindIndex(bs, id) # 0
    THEN prev + RefundAmount(bs[FindIndex(bs, id)].totalPrice)
    ELSE prev

\* handleCancelBooking: the bookings after the call
handleCancelBooking(bs, id) == handleUpdateStatus(bs, id, CANCELLED)

handleAddVehicle(vs, vehicle) == Append(vs, vehicle)

\* (variant: the flag of every vehicle is written)
handleToggleAvailability_All(vs, id) ==
    [i \in DOMAIN vs |-> [vs[i] EXCEPT !.isAvailable = ~vs[i].isAvailable]]

handleToggleAvailability(vs, id) ==
    [i \in DOMAIN vs |->
        IF vs[i].id = id
        THEN [vs[i] EXCEPT !.isAvailable = ~vs[i].isAvailable]
        ELSE vs[i]]

----------------------------------------------------------------------------
(* Local state of the pages *)

NoDetail == [vehicleId |-> Null, showPayment |-> FALSE, processing |-> FALSE,
             useCredits |-> TRUE]

NoResv == [reviewModalOpen |-> FALSE, selectedBookingId |-> Null, rating |-> 0,
           comment |-> "", showCancelConfirm |-> Null]

NoMv == [view |-> "list", newCarStep |-> 1, hasPrice |-> FALSE, pricePerDay |-> 0,
         imageUrl |-> Null]

NoVehicle == Veh(Null, "", 0)

\* setTimeout(() => { onBook(vehicle, creditDeduction); ... }, 2000)
PayTimer(vehicle, creditDeduction, closureBookings) ==
    [kind |-> "pay", mounted |-> TRUE, id |-> Null, vehicle |-> vehicle,
     creditDeduction |-> creditDeduction, bookings |-> closureBookings,
     renterId |-> UserId]

\* setTimeout(() => handleOpenReview(id), 500)
FinishTimer(id) ==
    [kind |-> "finish", mounted |-> TRUE, id |-> id, vehicle |-> NoVehicle,
     creditDeduction |-> 0, bookings |-> <<>>, renterId |-> ""]

\* leaving a page unmounts it: its timers keep running, detached
Unmount(ts, kind) ==
    [i \in DOMAIN ts |->
        IF ts[i].kind = kind THEN [ts[i] EXCEPT !.mounted = FALSE] ELSE ts[i]]

UnmountPage(ts) ==
    CASE page = "vehicle" -> Unmount(ts, "pay")
      [] page = "reservations" -> Unmount(ts, "finish")
      [] OTHER -> ts

\* the vehicle the detail page renders: vehicles.find(v => v.id === vehicleId)
DetailVehicle == vehicles[FindIndex(vehicles, detail.vehicleId)]

\* HomePage / SearchPage list only verified, available vehicles
Listed(v) == v.verificationStatus = "verified" /\ v.isAvailable

\* MyVehiclesPage lists the vehicles of owner 'o1' or 'current'
Mine(v) == v.ownerId = "o1" \/ v.ownerId = "current"

----------------------------------------------------------------------------
(* Image upload and identity verification: data and pure functions *)

\* file.size > 5 * 1024 * 1024 is rejected
MaxFileSize == 5 * 1024 * 1024

AcceptedTypes == {"image/jpeg", "image/png", "image/webp"}

\* the files a user may pick: an empty JPEG, a PNG of exactly 5 MiB, a WebP,
\* a 6 MB JPEG and a PDF
File(size, type) == [size |-> size, type |-> type]
Files == {File(0, "image/jpeg"), File(MaxFileSize, "image/png"),
          File(1024, "image/webp"), File(6000000, "image/jpeg"),
          File(1024, "application/pdf")}

\* errorMsg is null or one of the non-empty texts below; null is written ""
NoMsg == ""
MsgTooBig == "El archivo excede 5MB"
MsgBadType == "Solo formatos JPG o PNG"
MsgProcessing == "Error al procesar"
MsgDefault == "Imagen no valida"        \* aiResult.reason || "Imagen no valida"
MsgBadFormat == "Invalid image format"
MsgNoResponse == "No response from AI"

\* mutant: only the size is checked
RejectionOf_SizeOnly(file) ==
    IF file.size > MaxFileSize THEN MsgTooBig ELSE NoMsg

\* the two checks at the head of handleFileChange: the message of the
\* rejection, NoMsg for a file that passes
RejectionOf(file) ==
    IF file.size > MaxFileSize THEN MsgTooBig
    ELSE IF file.type \notin AcceptedTypes THEN MsgBadType
    ELSE NoMsg

\* fileToBase64: the data URL "data:<mimeType>;base64,<data>" of the file,
\* kept as its two parts; an empty file has no data
NoBase64 == [mimeType |-> "", data |-> ""]
fileToBase64(file) ==
    [mimeType |-> file.type, data |-> IF file.size = 0 THEN "" ELSE "AAAA"]

\* base64Image.match(/^data:(.+);base64,(.+)$/)
MatchesDataUrl(base64) == base64.mimeType # "" /\ base64.data # ""

\* what generateContent may do once called: throw, or answer with a text
Texts == {"", "not json", "{}", "null", "{isValid:true}",
          "{isValid:false,reason:blurry}", "{isValid:false}"}
Outcomes == {[kind |-> "throws", text |-> ""]} \cup
            {[kind |-> "text", text |-> t] : t \in Texts}

\* values of aiResult: an object with optional isValid / reason, or null
ValidResult == [kind |-> "object", isValid |-> "true", reason |-> ""]
Rejected(reason) == [kind |-> "object", isValid |-> "false", reason |-> reason]

\* JSON.parse(text): throws on text that is not JSON
JsonParse(text) ==
    CASE text = "{}" ->
            [ok |-> TRUE,
             value |-> [kind |-> "object", isValid |-> "absent", reason |-> ""]]
      [] text = "null" ->
            [ok |-> TRUE,
             value |-> [kind |-> "null", isValid |-> "absent", reason |-> ""]]
      [] text = "{isValid:true}" -> [ok |-> TRUE, value |-> ValidResult]
      [] text = "{isValid:false,reason:blurry}" ->
            [ok |-> TRUE, value |-> Rejected("blurry")]
      [] text = "{isValid:false}" -> [ok |-> TRUE, value |-> Rejected("")]
      [] OTHER -> [ok |-> FALSE, value |-> ValidResult]

\* validateImageWithGemini reaches ai.models.generateContent
NeedsCall(key, base64) == key /\ MatchesDataUrl(base64)

\* validateImageWithGemini returning without a call
ShortCircuit(key, base64) ==
    IF ~key THEN ValidResult ELSE Rejected(MsgBadFormat)

\* mutant: a failed call is reported as a rejection
AfterCall_FailClosed(outcome) ==
    IF outcome.kind = "throws" THEN Rejected(MsgNoResponse)
    ELSE IF outcome.text = "" THEN Rejected(MsgNoResponse)
    ELSE IF ~JsonParse(outcome.text).ok THEN ValidResult
    ELSE JsonParse(outcome.text).value

\* validateImageWithGemini after the call: catch (error) { return {isValid: true} }
AfterCall(outcome) ==
    IF outcome.kind = "throws" THEN ValidResult
    ELSE IF outcome.text = "" THEN Rejected(MsgNoResponse)
    ELSE IF ~JsonParse(outcome.text).ok THEN ValidResult
    ELSE JsonParse(outcome.text).value

\* handleFileChange after `await validateImageWithGemini`: reading .isValid of
\* null throws into the outer catch; a falsy isValid is a rejection
Verdict(aiResult) ==
    IF aiResult.kind = "null"
    THEN [status |-> "error", errorMsg |-> MsgProcessing]
    ELSE IF aiResult.isValid # "true"
    THEN [status |-> "error",
          errorMsg |-> IF aiResult.reason # "" THEN aiResult.reason ELSE MsgDefault]
    ELSE [status |-> "success", errorMsg |-> NoMsg]

\* ImageUploadBox: useState('idle'), useState(null)
IdleBox == [status |-> "idle", errorMsg |-> NoMsg]

\* the boxes the model follows: "Cedula Frontal" and "Selfie con Cedula" of
\* PersonalInfoPage, "Foto Principal" of the wizard's step 2
DocBoxes == {"front", "selfie"}
BoxNames == DocBoxes \cup {"main"}
IdleBoxes == [b \in BoxNames |-> IdleBox]

\* a box that leaves the screen while its flow is suspended: the flow goes on,
\* its setStatus / setErrorMsg calls no longer have an effect
Detach(rs, b) ==
    [i \in DOMAIN rs |->
        IF rs[i].box = b THEN [rs[i] EXCEPT !.boxMounted = FALSE] ELSE rs[i]]

\* the part of newCarData the model follows
CarData(m) == [hasPrice |-> m.hasPrice, pricePerDay |-> m.pricePerDay,
               imageUrl |-> m.imageUrl]

\* the user record as far as verification goes: isVerified and the object
\* URLs in verificationDocs (Null when absent)
NoUser == [isVerified |-> FALSE, front |-> Null, selfie |-> Null]

\* PersonalInfoPage: useState(user), useState(false), useState(false), useState(null)
NoPinfo == [formData |-> NoUser, editing |-> FALSE,
            isVerifyingBiometrics |-> FALSE, verificationResult |-> "null"]

\* handleDocUpload(docType, url), from the formData of the closure
handleDocUpload(formData, docType, url) == [formData EXCEPT ![docType] = url]

\* (variant: the box opens the file dialog in every status)
Selectable_Always(box) == box.status = box.status

\* a box busy with a file ignores clicks
Selectable(box) == box.status \notin {"uploading", "analyzing"}

\* what the box renders: the accepted image with its "Aprobado" badge whenever
\* the parent holds an image, else the error text or the label
Shown(box, image) ==
    IF ~Selectable(box) THEN "spinner"
    ELSE IF image # Null THEN "Aprobado"
    ELSE IF box.status \in {"idle", "error"}
    THEN (IF box.errorMsg # NoMsg THEN box.errorMsg ELSE "label")
    ELSE "blank"

----------------------------------------------------------------------------
(* Initial state *)

Init ==
    /\ vehicles = MOCK_VEHICLES
    /\ bookings = MOCK_BOOKINGS
    /\ userCredits = InitialCredits
    /\ now = ClockStart
    /\ page = "home"
    /\ detail = NoDetail
    /\ resv = NoResv
    /\ mv = NoMv
    /\ timers = <<>>
    /\ payments = 0
    /\ refundCount = <<>>
    /\ apiKey = FALSE
    /\ user = NoUser
    /\ pinfo = NoPinfo
    /\ boxes = IdleBoxes
    /\ runs = <<>>
    /\ bio = <<>>
    /\ urlSeq = 0
    /\ selections = 0

----------------------------------------------------------------------------
(* Clock and navigation *)

\* (variant: two calls read the same millisecond)
ClockRead_Frozen == now

\* Date.now() of a call that builds an id.  Two such calls are never in the
\* same millisecond: handleBook runs from 2 s timers started by distinct clicks
\* and ends in a blocking alert(), the wizard needs several clicks per vehicle.
ClockRead == now + 1

\* BottomNav links (they stay on top of every dialog) and the browser's history
Navigate(p) ==
    /\ p \in {"home", "reservations", "my-vehicles", "profile"}
    /\ p # page
    /\ page' = p
    /\ detail' = NoDetail
    /\ resv' = NoResv
    /\ mv' = NoMv
    /\ timers' = UnmountPage(timers)
    /\ pinfo' = NoPinfo
    /\ boxes' = IdleBoxes
    /\ runs' = <<>>
    /\ bio' = [i \in DOMAIN bio |-> [bio[i] EXCEPT !.mounted = FALSE]]
    /\ UNCHANGED <<vehicles, bookings, userCredits, now, payments, refundCount,
                   apiKey, user, urlSeq, selections>>

\* <Link to={`/vehicle/${car.id}`}> on the home and search pages
OpenVehicle(id) ==
    /\ page = "home"
    /\ \E i \in DOMAIN vehicles : vehicles[i].id = id /\ Listed(vehicles[i])
    /\ page' = "vehicle"
    /\ detail' = [NoDetail EXCEPT !.vehicleId = id]
    /\ UNCHANGED <<vehicles, bookings, userCredits, now, resv, mv, timers,
                   payments, refundCount>>
    /\ UNCHANGED idVars

----------------------------------------------------------------------------
(* VehicleDetailPage *)

\* "Reservar Ahora"
ShowPayment ==
    /\ page = "vehicle"
    /\ ~detail.showPayment
    /\ detail' = [detail EXCEPT !.showPayment = TRUE]
    /\ UNCHANGED <<vehicles, bookings, userCredits, now, page, resv, mv, timers,
                   payments, refundCount>>
    /\ UNCHANGED idVars

\* the credits toggle of the payment dialog, rendered when userCredits > 0
ToggleUseCredits ==
    /\ page = "vehicle"
    /\ detail.showPayment /\ ~detail.processing
    /\ userCredits > 0
    /\ detail' = [detail EXCEPT !.useCredits = ~detail.useCredits]
    /\ UNCHANGED <<vehicles, bookings, userCredits, now, page, resv, mv, timers,
                   payments, refundCount>>
    /\ UNCHANGED idVars

\* "Cancelar" of the payment dialog
ClosePayment ==
    /\ page = "vehicle"
    /\ detail.showPayment /\ ~detail.processing
    /\ detail' = [detail EXCEPT !.showPayment = FALSE]
    /\ UNCHANGED <<vehicles, bookings, userCredits, now, page, resv, mv, timers,
                   payments, refundCount>>
    /\ UNCHANGED idVars

\* (variant: the pay button stays in the dialog while a payment is processed)
HandlePayment_Again(limit) ==
    /\ page = "vehicle"
    /\ detail.showPayment
    /\ payments < limit
    /\ detail' = [detail EXCEPT !.processing = TRUE]
    /\ timers' = Append(timers,
          PayTimer(DetailVehicle,
                   CreditDeduction(detail.useCredits, userCredits,
                                   DetailVehicle.pricePerDay),
                   bookings))
    /\ payments' = payments + 1
    /\ UNCHANGED <<vehicles, bookings, userCredits, now, page, resv, mv, refundCount>>
    /\ UNCHANGED idVars

\* handlePayment: starts the 2 s timer with this render's vehicle,
\* creditDeduction and onBook (which holds this render's bookings)
HandlePayment(limit) ==
    /\ page = "vehicle"
    /\ detail.showPayment /\ ~detail.processing
    /\ payments < limit
    /\ detail' = [detail EXCEPT !.processing = TRUE]
    /\ timers' = Append(timers,
          PayTimer(DetailVehicle,
                   CreditDeduction(detail.useCredits, userCredits,
                                   DetailVehicle.pricePerDay),
                   bookings))
    /\ payments' = payments + 1
    /\ UNCHANGED <<vehicles, bookings, userCredits, now, page, resv, mv, refundCount>>
    /\ UNCHANGED idVars

\* the 2 s timer fires: onBook(vehicle, creditDeduction), then the dialog closes.
\* Timers of equal delay fire in start order, and a 500 ms timer started
\* earlier has fired before.
PaymentTimerFires ==
    /\ timers # <<>>
    /\ Head(timers).kind = "pay"
    /\ now' = ClockRead
    /\ bookings' = handleBook(Head(timers).bookings, Head(timers).vehicle,
                              Head(timers).renterId, ClockRead)
    /\ userCredits' = DeductCredits(userCredits, Head(timers).creditDeduction)
    /\ detail' = IF Head(timers).mounted
                 THEN [detail EXCEPT !.processing = FALSE, !.showPayment = FALSE]
                 ELSE detail
    /\ timers' = Tail(timers)
    /\ UNCHANGED <<vehicles, page, resv, mv, payments, refundCount>>
    /\ UNCHANGED idVars

----------------------------------------------------------------------------
(* ReservationsPage *)

\* the cancel overlay covers the whole card of the booking it was opened for
Covered(id) == resv.showCancelConfirm = id

\* the "Cancelar" button is rendered for Pending and Confirmed bookings
CancelButtonShown(b) == b.status = PENDING \/ b.status = CONFIRMED

\* the "Finalizar Viaje" button is rendered for bookings in progress
FinishButtonShown(b) == b.status = IN_PROGRESS

\* the "Calificar experiencia" button
ReviewButtonShown(b) == b.status = FINISHED /\ ~HasReview(b)

\* a card button can be clicked when no dialog or overlay lies over it
CardClickable(b) ==
    /\ page = "reservations"
    /\ ~resv.reviewModalOpen
    /\ ~Covered(b.id)

\* the overlay of booking id is on screen, with its two buttons
OverlayShown(id) ==
    /\ page = "reservations"
    /\ ~resv.reviewModalOpen
    /\ id # Null
    /\ Covered(id)
    /\ id \in Ids(bookings)

handleCancelClick(id) ==
    /\ \E i \in DOMAIN bookings :
          /\ bookings[i].id = id
          /\ CancelButtonShown(bookings[i])
          /\ CardClickable(bookings[i])
    /\ resv' = [resv EXCEPT !.showCancelConfirm = id]
    /\ UNCHANGED <<vehicles, bookings, userCredits, now, page, detail, mv,
                   timers, payments, refundCount>>
    /\ UNCHANGED idVars

\* "No, volver"
DismissCancel(id) ==
    /\ OverlayShown(id)
    /\ resv' = [resv EXCEPT !.showCancelConfirm = Null]
    /\ UNCHANGED <<vehicles, bookings, userCredits, now, page, detail, mv,
                   timers, payments, refundCount>>
    /\ UNCHANGED idVars

\* "Si, cancelar": confirmCancellation -> handleCancelBooking of this render
confirmCancellation(id) ==
    /\ OverlayShown(id)
    /\ userCredits' = CancelCredits(bookings, id, userCredits)
    /\ bookings' = handleCancelBooking(bookings, id)
    /\ refundCount' = IF FindIndex(bookings, id) # 0
                      THEN Counted(refundCount, id) ELSE refundCount
    /\ resv' = [resv EXCEPT !.showCancelConfirm = Null]
    /\ UNCHANGED <<vehicles, now, page, detail, mv, timers, payments>>
    /\ UNCHANGED idVars

\* what handleOpenReview sets
OpenedReview(id) ==
    [resv EXCEPT !.selectedBookingId = id, !.rating = 0, !.comment = "",
                 !.reviewModalOpen = TRUE]

\* "Finalizar Viaje": status update now, review dialog 500 ms later
handleFinishRental(id) ==
    /\ \E i \in DOMAIN bookings :
          /\ bookings[i].id = id
          /\ FinishButtonShown(bookings[i])
          /\ CardClickable(bookings[i])
    /\ bookings' = handleUpdateStatus(bookings, id, FINISHED)
    /\ timers' = Append(timers, FinishTimer(id))
    /\ UNCHANGED <<vehicles, userCredits, now, page, detail, resv, mv,
                   payments, refundCount>>
    /\ UNCHANGED idVars

\* the 500 ms timer fires: handleOpenReview(id), a no-op once the page was left
FinishTimerFires ==
    \E i \in DOMAIN timers :
        /\ timers[i].kind = "finish"
        /\ \A j \in 1..(i - 1) : timers[j].kind # "finish"
        /\ resv' = IF timers[i].mounted THEN OpenedReview(timers[i].id) ELSE resv
        /\ timers' = RemoveAt(timers, i)
        /\ UNCHANGED <<vehicles, bookings, userCredits, now, page, detail, mv,
                       payments, refundCount>>
        /\ UNCHANGED idVars

\* "Calificar experiencia"
handleOpenReview(id) ==
    /\ \E i \in DOMAIN bookings :
          /\ bookings[i].id = id
          /\ ReviewButtonShown(bookings[i])
          /\ CardClickable(bookings[i])
    /\ resv' = OpenedReview(id)
    /\ UNCHANGED <<vehicles, bookings, userCredits, now, page, detail, mv,
                   timers, payments, refundCount>>
    /\ UNCHANGED idVars

\* a star of the review dialog
SetRating(star) ==
    /\ page = "reservations"
    /\ resv.reviewModalOpen
    /\ star \in 1..5
    /\ resv' = [resv EXCEPT !.rating = star]
    /\ UNCHANGED <<vehicles, bookings, userCredits, now, page, detail, mv,
                   timers, payments, refundCount>>
    /\ UNCHANGED idVars

\* the comment field of the review dialog
SetComment(c) ==
    /\ page = "reservations"
    /\ resv.reviewModalOpen
    /\ c # resv.comment
    /\ resv' = [resv EXCEPT !.comment = c]
    /\ UNCHANGED <<vehicles, bookings, userCredits, now, page, detail, mv,
                   timers, payments, refundCount>>
    /\ UNCHANGED idVars

\* "Enviar Calificacion" (disabled while rating = 0)
handleSubmitReview ==
    /\ page = "reservations"
    /\ resv.reviewModalOpen
    /\ resv.selectedBookingId # Null /\ resv.rating > 0
    /\ bookings' = handleAddReview(bookings, resv.selectedBookingId, resv.rating,
                                   resv.comment, now)
    /\ resv' = [resv EXCEPT !.reviewModalOpen = FALSE]
    /\ UNCHANGED <<vehicles, userCredits, now, page, detail, mv, timers,
                   payments, refundCount>>
    /\ UNCHANGED idVars

\* "Cancelar" of the review dialog
CloseReview ==
    /\ page = "reservations"
    /\ resv.reviewModalOpen
    /\ resv' = [resv EXCEPT !.reviewModalOpen = FALSE]
    /\ UNCHANGED <<vehicles, bookings, userCredits, now, page, detail, mv,
                   timers, payments, refundCount>>
    /\ UNCHANGED idVars

\* The props of ReservationsPage called with an id that no card of the page
\* carries: App's handleCancelBooking and handleAddReview run on the bookings
\* of the current render.
onCancelBooking(id) ==
    /\ userCredits' = CancelCredits(bookings, id, userCredits)
    /\ bookings' = handleCancelBooking(bookings, id)
    /\ refundCount' = IF FindIndex(bookings, id) # 0
                      THEN Counted(refundCount, id) ELSE refundCount
    /\ UNCHANGED <<vehicles, now, page, detail, resv, mv, timers, payments>>
    /\ UNCHANGED idVars

onAddReview(id, rating, comment) ==
    /\ bookings' = handleAddReview(bookings, id, rating, comment, now)
    /\ UNCHANGED <<vehicles, userCredits, now, page, detail, resv, mv, timers,
                   payments, refundCount>>
    /\ UNCHANGED idVars

----------------------------------------------------------------------------
(* MyVehiclesPage *)

ToggleAvailability(id) ==
    /\ page = "my-vehicles"
    /\ mv.view = "list"
    /\ \E i \in DOMAIN vehicles : vehicles[i].id = id /\ Mine(vehicles[i])
    /\ vehicles' = handleToggleAvailability(vehicles, id)
    /\ UNCHANGED <<bookings, userCredits, now, page, detail, resv, mv, timers,
                   payments, refundCount>>
    /\ UNCHANGED idVars

\* "Agregar otro vehiculo"
StartAdd ==
    /\ page = "my-vehicles"
    /\ mv.view = "list"
    /\ Len(vehicles) < Len(MOCK_VEHICLES) + MaxAdded
    /\ mv' = [mv EXCEPT !.view = "add"]
    /\ UNCHANGED <<vehicles, bookings, userCredits, now, page, detail, resv,
                   timers, payments, refundCount>>
    /\ UNCHANGED idVars

\* the price field of step 1: pricePerDay: parseInt(e.target.value)
EnterPrice(price) ==
    /\ page = "my-vehicles"
    /\ mv.view = "add" /\ mv.newCarStep = 1
    /\ mv' = [mv EXCEPT !.hasPrice = TRUE, !.pricePerDay = price]
    /\ UNCHANGED <<vehicles, bookings, userCredits, now, page, detail, resv,
                   timers, payments, refundCount>>
    /\ UNCHANGED idVars

\* (variant: the bottom button calls handleStepNext at every step)
handleStepNext_Always ==
    /\ page = "my-vehicles"
    /\ mv.view = "add"
    /\ mv' = [mv EXCEPT !.newCarStep = mv.newCarStep + 1]
    /\ boxes' = [boxes EXCEPT !["main"] = IdleBox]
    /\ runs' = Detach(runs, "main")
    /\ UNCHANGED <<vehicles, bookings, userCredits, now, page, detail, resv,
                   timers, payments, refundCount>>
    /\ UNCHANGED <<apiKey, user, pinfo, bio, urlSeq, selections>>

\* "Siguiente" (the button submits at step 3)
handleStepNext ==
    /\ page = "my-vehicles"
    /\ mv.view = "add" /\ mv.newCarStep # 3
    /\ mv' = [mv EXCEPT !.newCarStep = mv.newCarStep + 1]
    /\ boxes' = [boxes EXCEPT !["main"] = IdleBox]
    /\ runs' = Detach(runs, "main")
    /\ UNCHANGED <<vehicles, bookings, userCredits, now, page, detail, resv,
                   timers, payments, refundCount>>
    /\ UNCHANGED <<apiKey, user, pinfo, bio, urlSeq, selections>>

\* the back arrow: if (newCarStep > 1) handleStepBack(); else setView('list')
WizardBack ==
    /\ page = "my-vehicles"
    /\ mv.view = "add"
    /\ mv' = IF mv.newCarStep > 1
             THEN [mv EXCEPT !.newCarStep = mv.newCarStep - 1]
             ELSE [mv EXCEPT !.view = "list"]
    /\ boxes' = [boxes EXCEPT !["main"] = IdleBox]
    /\ runs' = Detach(runs, "main")
    /\ UNCHANGED <<vehicles, bookings, userCredits, now, page, detail, resv,
                   timers, payments, refundCount>>
    /\ UNCHANGED <<apiKey, user, pinfo, bio, urlSeq, selections>>

\* "Publicar Vehiculo".  Explored for wizards in which a price was typed (with
\* the field left empty pricePerDay is undefined).
handleSubmitVehicle ==
    /\ page = "my-vehicles"
    /\ mv.view = "add" /\ mv.newCarStep = 3
    /\ mv.hasPrice
    /\ now' = ClockRead
    /\ vehicles' = handleAddVehicle(vehicles,
                                    Veh(ClockRead, "current", mv.pricePerDay))
    /\ mv' = NoMv
    /\ UNCHANGED <<bookings, userCredits, page, detail, resv, timers,
                   payments, refundCount>>
    /\ UNCHANGED idVars

----------------------------------------------------------------------------
(* PersonalInfoPage: upload boxes and the biometric check *)

\* ProfilePage: navigate('/personal-info'); the page starts from useState(user)
OpenPersonalInfo ==
    /\ page = "profile"
    /\ page' = "personal-info"
    /\ pinfo' = [NoPinfo EXCEPT !.formData = user]
    /\ UNCHANGED <<vehicles, bookings, userCredits, now, detail, resv, mv, timers,
                   payments, refundCount>>
    /\ UNCHANGED <<apiKey, user, boxes, runs, bio, urlSeq, selections>>

\* the box is on screen
BoxMounted(b) ==
    IF b \in DocBoxes THEN page = "personal-info"
    ELSE page = "my-vehicles" /\ mv.view = "add" /\ mv.newCarStep = 2

\* the image prop the parent hands to the box
ImageOf(b) == IF b \in DocBoxes THEN pinfo.formData[b] ELSE mv.imageUrl

\* a handleFileChange call suspended at `await fileToBase64(file)`; formData
\* and carData are the ones inside the onImageSelect closure of the render
\* that got the event
ReadingRun(b, file) ==
    [box |-> b, stage |-> "reading", boxMounted |-> TRUE, file |-> file,
     base64 |-> NoBase64, formData |-> pinfo.formData, carData |-> CarData(mv)]

\* setStatus / setErrorMsg of the flow at position i
SetBox(i, box) ==
    IF runs[i].boxMounted THEN [boxes EXCEPT ![runs[i].box] = box] ELSE boxes

\* (variant: the message of the last rejection is kept)
SelectFile_KeepMsg(b, file) ==
    /\ BoxMounted(b)
    /\ Selectable(boxes[b])
    /\ selections < MaxSelections
    /\ selections' = selections + 1
    /\ IF RejectionOf(file) # NoMsg
       THEN /\ boxes' = [boxes EXCEPT ![b] = [status |-> "error",
                                              errorMsg |-> RejectionOf(file)]]
            /\ runs' = runs
       ELSE /\ boxes' = [boxes EXCEPT ![b] = [boxes[b] EXCEPT !.status = "uploading"]]
            /\ runs' = Append(runs, ReadingRun(b, file))
    /\ UNCHANGED <<vehicles, bookings, userCredits, now, page, detail, resv, mv,
                   timers, payments, refundCount>>
    /\ UNCHANGED <<apiKey, user, pinfo, bio, urlSeq>>

\* the user picks a file in box b: handleFileChange up to its first await
SelectFile(b, file) ==
    /\ BoxMounted(b)
    /\ Selectable(boxes[b])
    /\ selections < MaxSelections
    /\ selections' = selections + 1
    /\ IF RejectionOf(file) # NoMsg
       THEN /\ boxes' = [boxes EXCEPT ![b] = [status |-> "error",
                                              errorMsg |-> RejectionOf(file)]]
            /\ runs' = runs
       ELSE /\ boxes' = [boxes EXCEPT ![b] = [status |-> "uploading", errorMsg |-> NoMsg]]
            /\ runs' = Append(runs, ReadingRun(b, file))
    /\ UNCHANGED <<vehicles, bookings, userCredits, now, page, detail, resv, mv,
                   timers, payments, refundCount>>
    /\ UNCHANGED <<apiKey, user, pinfo, bio, urlSeq>>

\* fileToBase64 resolves: setStatus('analyzing'), validateImageWithGemini starts
\* and either reaches the external call or returns without one
FileRead(i) ==
    /\ i \in DOMAIN runs
    /\ runs[i].stage = "reading"
    /\ LET base64 == fileToBase64(runs[i].file) IN
         runs' = [runs EXCEPT ![i].base64 = base64,
                              ![i].stage = IF NeedsCall(apiKey, base64)
                                           THEN "calling" ELSE "returning"]
    /\ boxes' = SetBox(i, [boxes[runs[i].box] EXCEPT !.status = "analyzing"])
    /\ UNCHANGED <<vehicles, bookings, userCredits, now, page, detail, resv, mv,
                   timers, payments, refundCount>>
    /\ UNCHANGED <<apiKey, user, pinfo, bio, urlSeq, selections>>

\* fileToBase64 rejects (reader.onerror): the outer catch
FileReadFails(i) ==
    /\ i \in DOMAIN runs
    /\ runs[i].stage = "reading"
    /\ runs' = RemoveAt(runs, i)
    /\ boxes' = SetBox(i, [status |-> "error", errorMsg |-> MsgProcessing])
    /\ UNCHANGED <<vehicles, bookings, userCredits, now, page, detail, resv, mv,
                   timers, payments, refundCount>>
    /\ UNCHANGED <<apiKey, user, pinfo, bio, urlSeq, selections>>

\* onImageSelect(url) of the closure: handleDocUpload(docType, url) on the
\* identity page, setNewCarData({...newCarData, imageUrl: url}) in the wizard
Notify(i, url) ==
    IF runs[i].box \in DocBoxes
    THEN /\ pinfo' = [pinfo EXCEPT !.formData =
                         handleDocUpload(runs[i].formData, runs[i].box, url)]
         /\ mv' = mv
    ELSE /\ mv' = [mv EXCEPT !.hasPrice = runs[i].carData.hasPrice,
                             !.pricePerDay = runs[i].carData.pricePerDay,
                             !.imageUrl = url]
         /\ pinfo' = pinfo

\* handleFileChange from `const aiResult = await ...` to its end
Finish(i, aiResult) ==
    LET v == Verdict(aiResult) IN
        /\ runs' = RemoveAt(runs, i)
        /\ boxes' = SetBox(i, v)
        /\ IF v.status = "success"
           THEN /\ urlSeq' = urlSeq + 1
                /\ Notify(i, urlSeq + 1)
           ELSE UNCHANGED <<urlSeq, pinfo, mv>>
        /\ UNCHANGED <<vehicles, bookings, userCredits, now, page, detail, resv,
                       timers, payments, refundCount>>
        /\ UNCHANGED <<apiKey, user, bio, selections>>

\* validateImageWithGemini returns without having called the classifier
ValidationReturns(i) ==
    /\ i \in DOMAIN runs
    /\ runs[i].stage = "returning"
    /\ Finish(i, ShortCircuit(apiKey, runs[i].base64))

\* generateContent throws or answers
ClassifierAnswers(i, outcome) ==
    /\ i \in DOMAIN runs
    /\ runs[i].stage = "calling"
    /\ Finish(i, AfterCall(outcome))

\* generateContent never settles: the call carries no timeout
ClassifierHangs(i) ==
    /\ i \in DOMAIN runs
    /\ runs[i].stage = "calling"
    /\ runs' = [runs EXCEPT ![i].stage = "hung"]
    /\ UNCHANGED <<vehicles, bookings, userCredits, now, page, detail, resv, mv,
                   timers, payments, refundCount>>
    /\ UNCHANGED <<apiKey, user, pinfo, boxes, bio, urlSeq, selections>>

\* "Editar"
StartEdit ==
    /\ page = "personal-info"
    /\ ~pinfo.editing
    /\ pinfo' = [pinfo EXCEPT !.editing = TRUE]
    /\ UNCHANGED <<vehicles, bookings, userCredits, now, page, detail, resv, mv,
                   timers, payments, refundCount>>
    /\ UNCHANGED <<apiKey, user, boxes, runs, bio, urlSeq, selections>>

\* "Guardar": handleSave, onUpdateUser(formData)
handleSave ==
    /\ page = "personal-info"
    /\ pinfo.editing
    /\ user' = pinfo.formData
    /\ pinfo' = [pinfo EXCEPT !.editing = FALSE]
    /\ UNCHANGED <<vehicles, bookings, userCredits, now, page, detail, resv, mv,
                   timers, payments, refundCount>>
    /\ UNCHANGED <<apiKey, boxes, runs, bio, urlSeq, selections>>

\* the panel with "Verificar Identidad Ahora" is rendered
BiometricPanelShown ==
    /\ page = "personal-info"
    /\ ~pinfo.formData.isVerified
    /\ pinfo.formData.front # Null
    /\ pinfo.formData.selfie # Null

\* the calls in flight are told apart by a slot number: the smallest one free
SlotTaken(k) == \E i \in DOMAIN bio : bio[i].slot = k
FreeSlot == CHOOSE k \in 1..(Len(bio) + 1) :
                ~SlotTaken(k) /\ \A j \in 1..(k - 1) : SlotTaken(j)

\* "Verificar Identidad Ahora": handleRunBiometricCheck up to its first await
handleRunBiometricCheck ==
    /\ BiometricPanelShown
    /\ ~pinfo.isVerifyingBiometrics
    /\ pinfo.formData.front # Null /\ pinfo.formData.selfie # Null
    /\ Len(bio) < MaxAttempts
    /\ pinfo' = [pinfo EXCEPT !.isVerifyingBiometrics = TRUE,
                              !.verificationResult = "null"]
    /\ bio' = Append(bio, [stage |-> "front", mounted |-> TRUE, slot |-> FreeSlot,
                          formData |-> pinfo.formData])
    /\ UNCHANGED <<vehicles, bookings, userCredits, now, page, detail, resv, mv,
                   timers, payments, refundCount>>
    /\ UNCHANGED <<apiKey, user, boxes, runs, urlSeq, selections>>

\* urlToBase64 resolves (with "" when the fetch failed): the next await, then
\* setTimeout(..., 2000)
UrlRead(i) ==
    /\ i \in DOMAIN bio
    /\ bio[i].stage \in {"front", "selfie"}
    /\ bio' = [bio EXCEPT ![i].stage = IF bio[i].stage = "front"
                                       THEN "selfie" ELSE "timer"]
    /\ UNCHANGED <<vehicles, bookings, userCredits, now, page, detail, resv, mv,
                   timers, payments, refundCount>>
    /\ UNCHANGED <<apiKey, user, pinfo, boxes, runs, urlSeq, selections>>

\* mutant: the catch shows the message and leaves the check marked as running
UrlReadFails_Stuck(i) ==
    /\ i \in DOMAIN bio
    /\ bio[i].stage \in {"front", "selfie"}
    /\ bio' = RemoveAt(bio, i)
    /\ pinfo' = IF bio[i].mounted
                THEN [pinfo EXCEPT !.verificationResult = "nomatch"]
                ELSE pinfo
    /\ UNCHANGED <<vehicles, bookings, userCredits, now, page, detail, resv, mv,
                   timers, payments, refundCount>>
    /\ UNCHANGED <<apiKey, user, boxes, runs, urlSeq, selections>>

\* urlToBase64 rejects (reader.onerror): the catch of handleRunBiometricCheck
UrlReadFails(i) ==
    /\ i \in DOMAIN bio
    /\ bio[i].stage \in {"front", "selfie"}
    /\ bio' = RemoveAt(bio, i)
    /\ pinfo' = IF bio[i].mounted
                THEN [pinfo EXCEPT !.verificationResult = "nomatch",
                                   !.isVerifyingBiometrics = FALSE]
                ELSE pinfo
    /\ UNCHANGED <<vehicles, bookings, userCredits, now, page, detail, resv, mv,
                   timers, payments, refundCount>>
    /\ UNCHANGED <<apiKey, user, boxes, runs, urlSeq, selections>>

\* the 2 s timer of the simulated check fires
BiometricTimerFires(i) ==
    /\ i \in DOMAIN bio
    /\ bio[i].stage = "timer"
    /\ bio' = RemoveAt(bio, i)
    /\ user' = [bio[i].formData EXCEPT !.isVerified = TRUE]
    /\ pinfo' = IF bio[i].mounted
                THEN [pinfo EXCEPT !.verificationResult = "match",
                                   !.formData.isVerified = TRUE,
                                   !.isVerifyingBiometrics = FALSE]
                ELSE pinfo
    /\ UNCHANGED <<vehicles, bookings, userCredits, now, page, detail, resv, mv,
                   timers, payments, refundCount>>
    /\ UNCHANGED <<apiKey, boxes, runs, urlSeq, selections>>

----------------------------------------------------------------------------
(* Specifications *)

\* the vehicles the renter opens in Spec: 'v1' and the ones published
\* through the wizard
Picked == {1} \cup {vehicles[i].id : i \in {j \in DOMAIN vehicles : vehicles[j].ownerId = "current"}}

Nav == \E p \in {"home", "reservations", "my-vehicles"} : Navigate(p)

Pay(limit) ==
    \/ ShowPayment
    \/ ToggleUseCredits
    \/ ClosePayment
    \/ HandlePayment(limit)
    \/ PaymentTimerFires

Cancel ==
    \/ \E id \in Ids(bookings) : handleCancelClick(id)
    \/ \E id \in Ids(bookings) : DismissCancel(id)
    \/ \E id \in Ids(bookings) : confirmCancellation(id)

Review ==
    \/ \E id \in Ids(bookings) : handleFinishRental(id)
    \/ FinishTimerFires
    \/ \E id \in Ids(bookings) : handleOpenReview(id)
    \/ \E star \in 1..5 : SetRating(star)
    \/ \E c \in Comments : SetComment(c)
    \/ handleSubmitReview
    \/ CloseReview

Own ==
    \/ \E id \in Picked : ToggleAvailability(id)
    \/ StartAdd
    \/ \E price \in PriceInputs : EnterPrice(price)
    \/ handleStepNext
    \/ WizardBack
    \/ handleSubmitVehicle

\* The application as shipped, started from the mock data: renter and owner
\* flows.  No booking of the mock data is in progress, so the finish / review
\* controls are never rendered here; SpecData exercises them.
Next ==
    \/ Nav
    \/ \E id \in Picked : OpenVehicle(id)
    \/ Pay(MaxPayments)
    \/ Cancel
    \/ Own

Spec == Init /\ [][Next]_vars

\* The renter's ledger over every mock vehicle.
NextLedger ==
    \/ Nav
    \/ \E id \in Ids(vehicles) : OpenVehicle(id)
    \/ Pay(MaxLedgerPayments)
    \/ Cancel

SpecLedger == Init /\ [][NextLedger]_vars

\* ReservationsPage over any booking data: the two bookings of the mock data,
\* each in any status (the page renders whatever bookings it is given; the
\* finish and review controls need a booking in progress or finished).
InitData ==
    /\ vehicles = MOCK_VEHICLES
    /\ bookings \in {[i \in DOMAIN MOCK_BOOKINGS |->
                        [MOCK_BOOKINGS[i] EXCEPT !.status = st[i]]] :
                     st \in [DOMAIN MOCK_BOOKINGS -> BookingStatus]}
    /\ userCredits = InitialCredits
    /\ now = ClockStart
    /\ page = "home"
    /\ detail = NoDetail
    /\ resv = NoResv
    /\ mv = NoMv
    /\ timers = <<>>
    /\ payments = 0
    /\ refundCount = <<>>
    /\ apiKey = FALSE
    /\ user = NoUser
    /\ pinfo = NoPinfo
    /\ boxes = IdleBoxes
    /\ runs = <<>>
    /\ bio = <<>>
    /\ urlSeq = 0
    /\ selections = 0

NextData ==
    \/ Nav
    \/ Cancel
    \/ Review

SpecData == InitData /\ [][NextData]_vars

\* Renter and owner on the same data while a trip runs: the vehicle 'v4' of
\* booking 'b2' belongs to owner 'o1', whose vehicles MyVehiclesPage lists.
InitTrip ==
    /\ vehicles = MOCK_VEHICLES
    /\ bookings = [MOCK_BOOKINGS EXCEPT ![2].status = IN_PROGRESS]
    /\ userCredits = InitialCredits
    /\ now = ClockStart
    /\ page = "home"
    /\ detail = NoDetail
    /\ resv = NoResv
    /\ mv = NoMv
    /\ timers = <<>>
    /\ payments = 0
    /\ refundCount = <<>>
    /\ apiKey = FALSE
    /\ user = NoUser
    /\ pinfo = NoPinfo
    /\ boxes = IdleBoxes
    /\ runs = <<>>
    /\ bio = <<>>
    /\ urlSeq = 0
    /\ selections = 0

NextTrip ==
    \/ Nav
    \/ OpenVehicle(MOCK_VEHICLES[4].id)
    \/ Pay(MaxTripPayments)
    \/ Cancel
    \/ \E id \in Ids(bookings) : handleFinishRental(id)
    \/ FinishTimerFires
    \/ \E id \in Ids(bookings) : handleOpenReview(id)
    \/ SetRating(5)
    \/ handleSubmitReview
    \/ CloseReview
    \/ ToggleAvailability(MOCK_VEHICLES[4].id)

SpecTrip == InitTrip /\ [][NextTrip]_vars

\* The identity page: PersonalInfoPage with its "Cedula Frontal" and "Selfie"
\* boxes, in a build with or without an API key.
InitIdentity ==
    /\ vehicles = MOCK_VEHICLES
    /\ bookings = MOCK_BOOKINGS
    /\ userCredits = InitialCredits
    /\ now = ClockStart
    /\ page = "home"
    /\ detail = NoDetail
    /\ resv = NoResv
    /\ mv = NoMv
    /\ timers = <<>>
    /\ payments = 0
    /\ refundCount = <<>>
    /\ apiKey \in BOOLEAN
    /\ user = NoUser
    /\ pinfo = NoPinfo
    /\ boxes = IdleBoxes
    /\ runs = <<>>
    /\ bio = <<>>
    /\ urlSeq = 0
    /\ selections = 0

\* the suspended handleFileChange call at position i resumes
SettleRun(i) ==
    \/ FileRead(i)
    \/ FileReadFails(i)
    \/ ValidationReturns(i)
    \/ \E outcome \in Outcomes : ClassifierAnswers(i, outcome)

\* the suspended handleRunBiometricCheck call at position i resumes
SettleBio(i) ==
    \/ UrlRead(i)
    \/ UrlReadFails(i)
    \/ BiometricTimerFires(i)

\* the upload boxes of the page alone
NextUpload ==
    \/ \E p \in {"home", "profile"} : Navigate(p)
    \/ OpenPersonalInfo
    \/ \E b \in DocBoxes : \E file \in Files : SelectFile(b, file)
    \/ \E i \in 1..MaxSelections : SettleRun(i)
    \/ \E i \in 1..MaxSelections : ClassifierHangs(i)

SpecUpload == InitIdentity /\ [][NextUpload]_vars

\* the whole page; the documents are 5 MiB PNG files
NextIdentity ==
    \/ \E p \in {"home", "profile"} : Navigate(p)
    \/ OpenPersonalInfo
    \/ \E b \in DocBoxes :
          /\ selections < MaxDocSelections
          /\ SelectFile(b, File(MaxFileSize, "image/png"))
    \/ \E i \in 1..MaxSelections : SettleRun(i)
    \/ StartEdit
    \/ handleSave
    \/ handleRunBiometricCheck
    \/ \E i \in 1..MaxAttempts : SettleBio(i)

SpecIdentity == InitIdentity /\ [][NextIdentity]_vars

\* Promises and timers settle: a pending file read, a validation that returns
\* and a classifier call that is answered are not postponed forever.  A
\* classifier call that hangs is the environment's choice.
FairUpload == \A i \in 1..MaxSelections : WF_vars(SettleRun(i))

\* the reads of urlToBase64 settle and the 2 s timer fires
FairBio == \A i \in 1..MaxAttempts : WF_vars(SettleBio(i))

\* The wizard of MyVehiclesPage with the "Foto Principal" box of its step 2.
NextWizard ==
    \/ \E p \in {"home", "my-vehicles"} : Navigate(p)
    \/ StartAdd
    \/ EnterPrice(250000)
    \/ handleStepNext
    \/ WizardBack
    \/ handleSubmitVehicle
    \/ \E file \in Files : SelectFile("main", file)
    \/ \E i \in 1..MaxSelections : SettleRun(i)
    \/ \E i \in 1..MaxSelections : ClassifierHangs(i)

SpecWizard == InitIdentity /\ [][NextWizard]_vars

\* The owner alone: MyVehiclesPage with the list of the owner's vehicles and
\* the wizard, over every vehicle the list shows, and the listing as the home
\* page links it.
NextOwner ==
    \/ Nav
    \/ \E id \in Ids(vehicles) : OpenVehicle(id)
    \/ \E id \in Ids(vehicles) : ToggleAvailability(id)
    \/ StartAdd
    \/ \E price \in PriceInputs : EnterPrice(price)
    \/ handleStepNext
    \/ WizardBack
    \/ handleSubmitVehicle

SpecOwner == Init /\ [][NextOwner]_vars

\* The renter paying for 'v1', free to leave the page and come back.
NextPay ==
    \/ Nav
    \/ OpenVehicle(MOCK_VEHICLES[1].id)
    \/ Pay(MaxPayments)

SpecPay == Init /\ [][NextPay]_vars

\* a timer that was started fires
SpecPayLive == SpecPay /\ WF_vars(PaymentTimerFires)

\* ids that no booking carries: 'b1', 'b2' are 1, 2 and new ids are clock values
StrayIds == {ClockStart - 1}

\* ReservationsPage over any booking data, and App's handlers called with an
\* id of no booking
NextCalls ==
    \/ NextData
    \/ \E id \in StrayIds : onCancelBooking(id)
    \/ \E id \in StrayIds : onAddReview(id, 5, "")

SpecCalls == InitData /\ [][NextCalls]_vars

\* The photo step of the wizard alone: "Foto Principal" with an accepted and
\* a refused file, the steps before and after it.
NextPhoto ==
    \/ \E p \in {"home", "my-vehicles"} : Navigate(p)
    \/ StartAdd
    \/ handleStepNext
    \/ WizardBack
    \/ \E file \in {File(1024, "image/webp"), File(1024, "application/pdf")} :
          SelectFile("main", file)
    \/ \E i \in 1..MaxSelections : SettleRun(i)
    \/ \E i \in 1..MaxSelections : ClassifierHangs(i)

SpecPhoto == InitIdentity /\ [][NextPhoto]_vars

\* The renter paying for 'v1' and cancelling reservations.
NextRent ==
    \/ NextPay
    \/ Cancel

SpecRent == Init /\ [][NextRent]_vars

SpecUploadLive == SpecUpload /\ FairUpload

SpecIdentityLive == SpecIdentity /\ FairBio

----------------------------------------------------------------------------
(* Observations used by the properties *)

\* refunds paid so far for booking id
Refunds(f, id) == IF id \in DOMAIN f THEN f[id] ELSE 0

\* this step is a run of handleCancelBooking that found booking id
CancelStep(id) == Refunds(refundCount', id) = Refunds(refundCount, id) + 1

\* this step is the 2 s timer firing, i.e. a run of handleBook
BookStep ==
    /\ timers # <<>>
    /\ Head(timers).kind = "pay"
    /\ timers' = Tail(timers)

StatusOf(bs, id) == bs[FindIndex(bs, id)].status

----------------------------------------------------------------------------
(* C1 *)

\* C1: on every render of VehicleDetailPage with credits >= 0 and price > 0:
\* creditDeduction + cardCharge = price; with the toggle on creditDeduction is
\* the smaller of credits and price, with the toggle off it is 0 and the card
\* is charged the price; credits 150000 and price 450000 give 150000 / 300000.
\* The deduction a pending payment carries is at most the price.
C1_PaymentSplit ==
    /\ page = "vehicle" =>
        LET price == DetailVehicle.pricePerDay
            cd == CreditDeduction(detail.useCredits, userCredits, price)
            cc == CardCharge(price, cd)
        IN  (userCredits >= 0 /\ price > 0) =>
              /\ cd + cc = price
              /\ detail.useCredits =>
                    /\ cd <= userCredits /\ cd <= price
                    /\ cd = userCredits \/ cd = price
              /\ ~detail.useCredits => (cd = 0 /\ cc = price)
              /\ (detail.useCredits /\ userCredits = 150000 /\ price = 450000)
                    => (cd = 150000 /\ cc = 300000)
    /\ \A i \in DOMAIN timers :
          (timers[i].kind = "pay" /\ timers[i].vehicle.pricePerDay > 0) =>
              timers[i].creditDeduction <= timers[i].vehicle.pricePerDay

\* a payment was started with credits 150000 for the vehicle priced 450000
C1_Witness ==
    /\ page = "vehicle" /\ detail.processing /\ detail.useCredits
    /\ userCredits = 150000
    /\ DetailVehicle.pricePerDay = 450000
    /\ \E i \in DOMAIN timers :
          /\ timers[i].creditDeduction = 150000
          /\ CardCharge(timers[i].vehicle.pricePerDay, timers[i].creditDeduction) = 300000

----------------------------------------------------------------------------
(* C2 *)

\* C2: the credits balance is never negative
C2_CreditsNonNegative == userCredits >= 0

----------------------------------------------------------------------------
(* C3 *)

AllowedTransitions ==
    { <<PENDING, CANCELLED>>, <<CONFIRMED, CANCELLED>>,
      <<CONFIRMED, FINISHED>>, <<IN_PROGRESS, FINISHED>> }

\* C3: the status of a booking changes only along Pending -> Cancelled,
\* Confirmed -> Cancelled, Confirmed -> Finished, InProgress -> Finished; in
\* particular never out of Cancelled or Finished
C3_StatusTransitions ==
    [][\A i \in DOMAIN bookings \cap DOMAIN bookings' :
          (bookings[i].id = bookings'[i].id
             /\ bookings[i].status # bookings'[i].status)
          => <<bookings[i].status, bookings'[i].status>> \in AllowedTransitions]_vars

----------------------------------------------------------------------------
(* C4 *)

\* C4: whenever handleCancelBooking cancels and refunds a booking, that
\* booking's status at that moment is Pending or Confirmed
C4_CancelOnlyPendingOrConfirmed ==
    [][\A id \in Ids(bookings) :
          CancelStep(id) => StatusOf(bookings, id) \in {PENDING, CONFIRMED}]_vars

----------------------------------------------------------------------------
(* C5 *)

\* C5: cancelling a booking with totalPrice P >= 0 sets its status to
\* Cancelled and adds exactly 0.9 * P to the credits balance, whatever part of
\* P was paid with credits; for P = 1900000 it adds 1710000
C5_RefundExact ==
    [][\A id \in Ids(bookings) :
          (CancelStep(id) /\ bookings[FindIndex(bookings, id)].totalPrice >= 0) =>
              LET P == bookings[FindIndex(bookings, id)].totalPrice
              IN  /\ 10 * (userCredits' - userCredits) = 9 * P
                  /\ P = 1900000 => userCredits' = userCredits + 1710000
                  /\ FindIndex(bookings', id) # 0
                  /\ \A i \in DOMAIN bookings' :
                        bookings'[i].id = id => bookings'[i].status = CANCELLED]_vars

\* booking b1 (1900000) was cancelled, and so was a booking that had been
\* paid partly with credits
C5_Witness ==
    /\ Refunds(refundCount, 1) = 1
    /\ bookings[1].status = CANCELLED
    /\ \E i \in DOMAIN bookings :
          /\ bookings[i].id > ClockStart
          /\ bookings[i].status = CANCELLED
          /\ Refunds(refundCount, bookings[i].id) = 1
          /\ userCredits = 1710000 + RefundAmount(bookings[i].totalPrice)

----------------------------------------------------------------------------
(* C6 *)

----------------------------------------------------------------------------
(* C7 *)

\* C7: no write to the bookings list is lost: once no payment is pending, the
\* list holds the mock bookings plus one booking per payment started, and
\* every booking that was cancelled and refunded is still Cancelled
C7_NoLostWrite ==
    (\A i \in DOMAIN timers : timers[i].kind # "pay") =>
        /\ Len(bookings) = Len(MOCK_BOOKINGS) + payments
        /\ \A id \in DOMAIN refundCount :
              /\ FindIndex(bookings, id) # 0
              /\ StatusOf(bookings, id) = CANCELLED

----------------------------------------------------------------------------
(* C8 *)

\* C8: cancellation pays out once: for every booking the 90% refund is added
\* to the credits balance at most one time (a second refund needs the booking
\* to be cancellable again after it was Cancelled)
C8_RefundOnce == \A id \in DOMAIN refundCount : refundCount[id] <= 1

----------------------------------------------------------------------------
(* C9 *)

\* C9: when handleBook runs, the credits balance decreases by exactly the
\* creditDeduction the card charge was computed against, so that the amount
\* taken from credits plus the card charge is the booking's totalPrice
C9_DeductionMatchesCharge ==
    [][BookStep =>
          LET t == Head(timers)
              taken == userCredits - userCredits'
              cardCharge == CardCharge(t.vehicle.pricePerDay, t.creditDeduction)
          IN  /\ taken = t.creditDeduction
              /\ taken + cardCharge = bookings'[Len(bookings')].totalPrice]_vars

----------------------------------------------------------------------------
(* C10 *)

\* C10: handleBook adds exactly one booking: the list grows by one element,
\* Confirmed, for the selected vehicle at its pricePerDay and for the current
\* user, and every booking that was in the list is kept
C10_BookAppendsOne ==
    [][BookStep =>
          LET t == Head(timers)
              n == Len(bookings')
          IN  /\ n = Len(bookings) + 1
              /\ bookings'[n].status = CONFIRMED
              /\ bookings'[n].totalPrice = t.vehicle.pricePerDay
              /\ bookings'[n].vehicleId = t.vehicle.id
              /\ bookings'[n].renterId = UserId
              /\ \A i \in DOMAIN bookings :
                    i \in DOMAIN bookings' /\ bookings'[i] = bookings[i]]_vars

----------------------------------------------------------------------------
(* C11 *)

\* C11: a booking's vehicleSnapshot never changes once the booking is in the
\* list (whatever is toggled, added, cancelled, finished or reviewed), and the
\* snapshot of a new booking is the vehicle the payment was made for
C11_SnapshotImmutable ==
    [][/\ \A i \in DOMAIN bookings : \A j \in DOMAIN bookings' :
            bookings[i].id = bookings'[j].id =>
                bookings'[j].vehicleSnapshot = bookings[i].vehicleSnapshot
       /\ BookStep =>
            bookings'[Len(bookings')].vehicleSnapshot = Head(timers).vehicle]_vars

\* a reviewed booking and a cancelled new booking, both of a vehicle that was
\* switched off since
C11_Witness ==
    /\ ~vehicles[4].isAvailable
    /\ bookings[2].vehicleId = vehicles[4].id
    /\ HasReview(bookings[2])
    /\ bookings[2].vehicleSnapshot.isAvailable
    /\ \E i \in DOMAIN bookings :
          /\ bookings[i].id > ClockStart
          /\ bookings[i].vehicleId = vehicles[4].id
          /\ bookings[i].status = CANCELLED
          /\ bookings[i].vehicleSnapshot = MOCK_VEHICLES[4]

----------------------------------------------------------------------------
(* C12 *)

\* the suspended handleFileChange calls of box b
RunsOf(b) == {i \in DOMAIN runs : runs[i].box = b}

\* C12: selecting a file over 5 MiB or of a type other than jpeg / png / webp
\* puts the box in status error with a message (the size message for a 6 MB
\* JPEG), starts no encoding and no classifier call and does not notify the
\* parent; a box without a flow changes only through a selection or by being
\* unmounted, so that selection never shows uploading, analyzing or success
C12_RejectedFile ==
    [][/\ \A b \in DocBoxes : \A file \in Files :
            (file.size > MaxFileSize \/ file.type \notin AcceptedTypes)
            /\ SelectFile(b, file)
            => /\ boxes'[b].status = "error"
               /\ boxes'[b].errorMsg \in {MsgTooBig, MsgBadType}
               /\ (file.size = 6000000 /\ file.type = "image/jpeg"
                     => boxes'[b].errorMsg = MsgTooBig)
               /\ runs' = runs
               /\ urlSeq' = urlSeq
               /\ pinfo' = pinfo /\ user' = user
       /\ \A b \in DocBoxes :
            RunsOf(b) = {} /\ boxes'[b] # boxes[b]
            => selections' = selections + 1 \/ page' # page]_vars

\* both rejections on screen, next to an image accepted before
C12_Witness ==
    /\ page = "personal-info"
    /\ boxes["front"] = [status |-> "error", errorMsg |-> MsgTooBig]
    /\ boxes["selfie"] = [status |-> "error", errorMsg |-> MsgBadType]
    /\ pinfo.formData.front # Null
    /\ runs = <<>>

----------------------------------------------------------------------------
(* C13 *)

Throws == [kind |-> "throws", text |-> ""]

\* the flow at position i ends in success and hands a fresh URL to the parent
EndsInSuccess(i) ==
    /\ boxes'[runs[i].box] = [status |-> "success", errorMsg |-> NoMsg]
    /\ urlSeq' = urlSeq + 1
    /\ pinfo'.formData[runs[i].box] = urlSeq + 1

\* C13: without an API key validateImageWithGemini makes no external call and
\* the upload ends in success with the parent notified; a classifier call that
\* throws ends the same way; neither ends in status error
C13_FailOpen ==
    /\ [](~apiKey => \A i \in DOMAIN runs : runs[i].stage \notin {"calling", "hung"})
    /\ [][\A i \in DOMAIN runs :
            \/ ValidationReturns(i) /\ ~apiKey
            \/ ClassifierAnswers(i, Throws)
            => EndsInSuccess(i)]_vars

\* a build without key: both documents accepted, no call ever made
C13_Witness ==
    /\ ~apiKey
    /\ page = "personal-info"
    /\ boxes["front"].status = "success" /\ boxes["selfie"].status = "success"
    /\ pinfo.formData.selfie # Null
    /\ urlSeq = 2

----------------------------------------------------------------------------
(* C14 *)

\* answers that carry no boolean isValid: empty text, text that is not JSON,
\* JSON null, a JSON object without the field
Malformed ==
    {t \in Texts : \/ t = ""
                   \/ ~JsonParse(t).ok
                   \/ JsonParse(t).value.isValid \notin {"true", "false"}}

\* C14: a malformed classifier answer is treated as isValid = true: the upload
\* ends in success and no error is shown
C14_MalformedAccepted ==
    [][\A i \in DOMAIN runs : \A t \in Malformed :
            ClassifierAnswers(i, [kind |-> "text", text |-> t])
            => EndsInSuccess(i)]_vars

----------------------------------------------------------------------------
(* C15 *)

\* C15: an upload that entered analyzing reaches success or error (or its
\* page is left), whatever the classifier does
C15_NoBlockedUpload ==
    \A b \in DocBoxes :
        (boxes[b].status = "analyzing")
            ~> (boxes[b].status \in {"success", "error"} \/ page # "personal-info")

----------------------------------------------------------------------------
(* C16 *)

\* answers that are a JSON object with isValid = false
Refusals == {t \in Texts : JsonParse(t).ok /\ JsonParse(t).value.isValid = "false"}

\* the text a refusal puts in errorMsg
ReasonOf(t) ==
    IF JsonParse(t).value.reason # "" THEN JsonParse(t).value.reason ELSE MsgDefault

\* the flow at position i ends in status error with the classifier's reason
\* (the default text without one), nothing is handed to the parent
EndsRefused(i, t) ==
    /\ boxes'[runs[i].box] = [status |-> "error", errorMsg |-> ReasonOf(t)]
    /\ urlSeq' = urlSeq
    /\ pinfo' = pinfo
    /\ user' = user

\* C16: when the classifier answers isValid = false the box ends in status
\* error and shows the classifier's reason (a default text without one),
\* onImageSelect is not called and the parent's image stays as it was
C16_RefusalShown ==
    [][\A i \in DOMAIN runs : \A t \in Refusals :
            ClassifierAnswers(i, [kind |-> "text", text |-> t])
            => /\ EndsRefused(i, t)
               /\ Shown(boxes'[runs[i].box], pinfo'.formData[runs[i].box])
                    = ReasonOf(t)]_vars

----------------------------------------------------------------------------
(* C17 *)

\* C17: the status of a box becomes analyzing only from uploading, success
\* only from analyzing, uploading only by a selection made in idle, success or
\* error; success and error stay until the next selection (or until the box
\* leaves the screen); and onImageSelect is called, with a fresh object URL,
\* in exactly the steps in which a box enters success
C17_StatusFlow ==
    [][/\ \A b \in BoxNames :
            LET s == boxes[b].status
                t == boxes'[b].status
            IN  /\ (t = "analyzing" /\ s # t) => s = "uploading"
                /\ (t = "success" /\ s # t) => s = "analyzing"
                /\ (t = "uploading" /\ s # t) =>
                      /\ s \in {"idle", "success", "error"}
                      /\ selections' = selections + 1
                /\ (s \in {"success", "error"} /\ boxes'[b] # boxes[b]) =>
                      \/ selections' = selections + 1
                      \/ ~BoxMounted(b)'
       /\ (urlSeq' = urlSeq + 1) <=>
            (\E b \in BoxNames :
                boxes'[b].status = "success" /\ boxes[b].status # "success")]_vars

----------------------------------------------------------------------------
(* C18 *)

\* C18: on the reservations page the finish action is offered for a booking
\* exactly when its status is Confirmed or In progress, and performing it
\* leaves that booking Finished
C18_FinishAvailable ==
    [][/\ page = "reservations" =>
            \A i \in DOMAIN bookings :
                FinishButtonShown(bookings[i])
                    <=> bookings[i].status \in {CONFIRMED, IN_PROGRESS}
       /\ \A id \in Ids(bookings) :
            handleFinishRental(id) => StatusOf(bookings', id) = FINISHED]_vars

----------------------------------------------------------------------------
(* C19 *)

\* C19: every review stored on a booking has a rating in 1..5 (its comment
\* may be empty), and while the dialog's rating is 0 a submit stores nothing
\* and leaves the dialog open
C19_RatingRange ==
    /\ \A i \in DOMAIN bookings :
          HasReview(bookings[i]) => bookings[i].review.rating \in 1..5
    /\ (page = "reservations" /\ resv.reviewModalOpen /\ resv.rating = 0)
          => ~ENABLED handleSubmitReview

\* a review without comment is stored, the dialog is open again with no star
\* chosen
C19_Witness ==
    /\ \E i \in DOMAIN bookings :
          /\ HasReview(bookings[i])
          /\ bookings[i].review.comment = ""
          /\ bookings[i].review.rating = 1
    /\ \E i \in DOMAIN bookings :
          /\ HasReview(bookings[i])
          /\ bookings[i].review.rating = 5
    /\ page = "reservations" /\ resv.reviewModalOpen /\ resv.rating = 0

----------------------------------------------------------------------------
(* C20 *)

\* this step ends the biometric check at position i
BioEnds(i) == UrlReadFails(i) \/ BiometricTimerFires(i)

\* C20: the biometric check starts only with the front image and the selfie
\* present; a started check is one call that is never repeated on its own and
\* ends in a single step, either marking the user record verified (no error
\* shown) or showing the static error (the user record untouched), with
\* isVerifyingBiometrics back to false on its page; the flag is never left set
\* without a check in flight, and every check and every set flag does end
C20_BiometricCheck ==
    /\ [][/\ handleRunBiometricCheck =>
                pinfo.formData.front # Null /\ pinfo.formData.selfie # Null
          /\ Len(bio') > Len(bio) => handleRunBiometricCheck
          /\ \A i \in DOMAIN bio :
                BioEnds(i) =>
                    /\ (bio[i].mounted => ~pinfo'.isVerifyingBiometrics)
                    /\ BiometricTimerFires(i) =>
                          /\ user'.isVerified
                          /\ (bio[i].mounted => pinfo'.verificationResult = "match")
                    /\ UrlReadFails(i) =>
                          /\ user' = user
                          /\ (bio[i].mounted => pinfo'.verificationResult = "nomatch")]_vars
    /\ [](pinfo.isVerifyingBiometrics =>
            \E i \in DOMAIN bio : bio[i].mounted)
    /\ \A k \in 1..MaxAttempts : SlotTaken(k) ~> ~SlotTaken(k)
    /\ pinfo.isVerifyingBiometrics ~> ~pinfo.isVerifyingBiometrics

\* both documents uploaded, the check ran to its end: the user is verified,
\* the page shows the match and no check is pending
C20_Witness ==
    /\ page = "personal-info"
    /\ user.isVerified
    /\ pinfo.formData.isVerified
    /\ pinfo.verificationResult = "match"
    /\ ~pinfo.isVerifyingBiometrics
    /\ bio = <<>>
    /\ user.front # Null /\ user.selfie # Null

----------------------------------------------------------------------------
(* C21 *)

\* the vehicle at position i differs from v in the availability flag only
Flipped(v, w) == w = [v EXCEPT !.isAvailable = ~v.isAvailable]

\* C21: no step shortens the vehicles list; a vehicle in the list changes only
\* in a step of the availability toggle, which flips isAvailable of the one
\* vehicle with that id and leaves the rest of the list as it was; the
\* wizard's submit appends one vehicle and keeps the others
C21_VehiclesFrame ==
    [][/\ Len(vehicles') >= Len(vehicles)
       /\ (\E i \in DOMAIN vehicles : vehicles'[i] # vehicles[i])
             => \E id \in Ids(vehicles) : ToggleAvailability(id)
       /\ \A id \in Ids(vehicles) :
             ToggleAvailability(id) =>
                 /\ Len(vehicles') = Len(vehicles)
                 /\ \E i \in DOMAIN vehicles :
                       /\ vehicles[i].id = id
                       /\ Flipped(vehicles[i], vehicles'[i])
                       /\ \A j \in DOMAIN vehicles \ {i} :
                             vehicles'[j] = vehicles[j]
       /\ handleSubmitVehicle =>
             /\ Len(vehicles') = Len(vehicles) + 1
             /\ SubSeq(vehicles', 1, Len(vehicles)) = vehicles]_vars

\* 'v1' was paused, a vehicle was published and paused too, 'v4' is untouched
C21_Witness ==
    /\ Len(vehicles) = Len(MOCK_VEHICLES) + 1
    /\ Flipped(MOCK_VEHICLES[1], vehicles[1])
    /\ vehicles[4] = MOCK_VEHICLES[4]
    /\ vehicles[Len(vehicles)].ownerId = "current"
    /\ ~vehicles[Len(vehicles)].isAvailable

----------------------------------------------------------------------------
(* C22 *)

\* the click on the pay button, whatever the exploration's limit
PayClick == HandlePayment(payments + 1)

\* C22: a payment timer is started by the pay button only and leaves the
\* queue only by firing, at which step handleBook stores the booking of its
\* vehicle; in between nothing changes it but the unmounting of its page;
\* a dialog that is processing offers neither the pay button nor "Cancelar";
\* and every started timer fires
C22_PaymentNotAbortable ==
    /\ [][/\ Len(timers') > Len(timers) =>
                PayClick /\ Len(timers') = Len(timers) + 1
          /\ Len(timers') < Len(timers) =>
                PaymentTimerFires /\ timers' = Tail(timers)
          /\ Len(timers') >= Len(timers) =>
                \A i \in DOMAIN timers :
                    timers'[i] = timers[i]
                    \/ timers'[i] = [timers[i] EXCEPT !.mounted = FALSE]
          /\ PaymentTimerFires =>
                /\ bookings'[Len(bookings')].vehicleId = Head(timers).vehicle.id
                /\ bookings'[Len(bookings')].id \notin Ids(bookings)
                /\ Len(bookings') = Len(Head(timers).bookings) + 1]_vars
    /\ []((page = "vehicle" /\ detail.processing) =>
            /\ ~ENABLED PayClick
            /\ ~ENABLED ClosePayment
            /\ \E i \in DOMAIN timers : timers[i].mounted)
    /\ (timers # <<>>) ~> (timers = <<>>)

\* a payment made a booking, the next one is pending while the renter has left
\* the page
C22_Witness ==
    /\ Len(bookings) = Len(MOCK_BOOKINGS) + 1
    /\ page = "reservations"
    /\ Len(timers) = 1
    /\ ~Head(timers).mounted

----------------------------------------------------------------------------
(* C23 *)

\* C23: in every box errorMsg is set exactly when status is 'error'
C23_ErrorMsgIffError ==
    \A b \in BoxNames :
        (boxes[b].errorMsg # NoMsg) <=> (boxes[b].status = "error")

\* after a rejection in each box: the front image is being read again with no
\* message left, the selfie box still shows why its file was refused
C23_Witness ==
    /\ selections = 3
    /\ urlSeq = 0
    /\ boxes["front"] = [status |-> "uploading", errorMsg |-> NoMsg]
    /\ boxes["selfie"] = [status |-> "error", errorMsg |-> MsgBadType]

----------------------------------------------------------------------------
(* C24 *)

\* the fields of a booking that cancel, finish and review do not write
Identity(b) ==
    <<b.id, b.vehicleId, b.renterId, b.startDate, b.endDate, b.totalPrice>>

\* this step is a cancellation, a finish or a review of booking id
Touches(id) ==
    \/ confirmCancellation(id)
    \/ handleFinishRental(id)
    \/ (handleSubmitReview /\ resv.selectedBookingId = id)
    \/ onCancelBooking(id)
    \/ \E r \in 1..5, c \in Comments : onAddReview(id, r, c)

\* C24: a cancellation, a finish or a review of booking X keeps the length of
\* the list, every booking with another id, and X's id, vehicleId, renterId,
\* dates and totalPrice; with an id of no booking, bookings and credits stay
C24_BookingFrame ==
    [][\A id \in Ids(bookings) \cup StrayIds :
          Touches(id) =>
              /\ DOMAIN bookings' = DOMAIN bookings
              /\ \A i \in DOMAIN bookings :
                    /\ bookings[i].id # id => bookings'[i] = bookings[i]
                    /\ Identity(bookings'[i]) = Identity(bookings[i])
              /\ id \notin Ids(bookings) =>
                    bookings' = bookings /\ userCredits' = userCredits]_vars

\* 'b1' was cancelled and refunded, 'b2' was finished and reviewed; each kept
\* its identity and the other's change
C24_Witness ==
    /\ bookings[1].status = CANCELLED /\ ~HasReview(bookings[1])
    /\ bookings[2].status = FINISHED /\ HasReview(bookings[2])
    /\ Identity(bookings[1]) = Identity(MOCK_BOOKINGS[1])
    /\ Identity(bookings[2]) = Identity(MOCK_BOOKINGS[2])
    /\ userCredits = InitialCredits + RefundAmount(MOCK_BOOKINGS[1].totalPrice)

----------------------------------------------------------------------------
(* C25 *)

\* C25: from the mock bookings no booking is ever in progress or finished and
\* none carries a review; the finish button, its timer, the review button and
\* the review dialog are never available
C25_NeverInProgress ==
    /\ \A i \in DOMAIN bookings :
          /\ bookings[i].status \notin {IN_PROGRESS, FINISHED}
          /\ ~HasReview(bookings[i])
    /\ \A id \in Ids(bookings) :
          /\ ~ENABLED handleFinishRental(id)
          /\ ~ENABLED handleOpenReview(id)
    /\ ~ENABLED FinishTimerFires
    /\ ~ENABLED handleSubmitReview
    /\ ~resv.reviewModalOpen

\* the renter cancelled 'b1' and 'b2', booked a vehicle and looks at the
\* reservations: the new booking is Confirmed
C25_Witness ==
    /\ page = "reservations"
    /\ timers = <<>>
    /\ Len(bookings) = Len(MOCK_BOOKINGS) + 1
    /\ bookings[1].status = CANCELLED
    /\ bookings[2].status = CANCELLED
    /\ bookings[3].status = CONFIRMED

----------------------------------------------------------------------------
(* C26 *)

\* the vehicle of the list that the timer at the head of the queue books
BookedVehicle == vehicles[FindIndex(vehicles, Head(timers).vehicle.id)]

\* C26: whenever handleBook runs, the vehicle it books is verified and
\* available in the vehicles list of that moment
C26_BookedOnlyAvailable ==
    [][PaymentTimerFires => Listed(BookedVehicle)]_vars

----------------------------------------------------------------------------
(* C27 *)

\* the suspended handleFileChange calls of the box instance on screen
LiveRunsOf(b) == {i \in RunsOf(b) : runs[i].boxMounted}

\* C27: a box on screen has at most one suspended handleFileChange call, it
\* has one exactly while its status is uploading or analyzing, and in those
\* statuses it accepts no file
C27_OneFlowPerBox ==
    \A b \in BoxNames :
        /\ Cardinality(LiveRunsOf(b)) <= 1
        /\ (boxes[b].status \in {"uploading", "analyzing"}) <=> (LiveRunsOf(b) # {})
        /\ LiveRunsOf(b) # {} =>
              /\ ~Selectable(boxes[b])
              /\ \A file \in Files : ~ENABLED SelectFile(b, file)

\* the wizard's box is analyzing its file while the flow of the box that was
\* on screen before the step change is still suspended
C27_Witness ==
    /\ Len(runs) = 2
    /\ ~runs[1].boxMounted /\ runs[2].boxMounted
    /\ runs[1].box = "main" /\ runs[2].box = "main"
    /\ boxes["main"].status = "analyzing"
    /\ selections < MaxSelections

----------------------------------------------------------------------------
(* C28 *)

\* C28: no step takes the user record from verified to unverified
C28_VerifiedMonotonic ==
    [][user.isVerified => user'.isVerified]_vars

----------------------------------------------------------------------------
(* C29 *)

\* the positions of the list whose booking carries this id
Carrying(bs, id) == {i \in DOMAIN bs : bs[i].id = id}

----------------------------------------------------------------------------
(* C30 *)

\* C30: the wizard's step is 1, 2 or 3, and 1 whenever the list is shown; the
\* bottom button advances at steps 1 and 2 and submits at step 3 only; the
\* back arrow goes one step down from 2 and 3 and to the list from 1; the
\* step changes in no other way while the page stays; a submit leaves step 1,
\* the list, and a last vehicle of owner 'current', available and verified
C30_WizardSteps ==
    /\ [](/\ mv.newCarStep \in 1..3
          /\ mv.view = "list" => mv.newCarStep = 1
          /\ mv.newCarStep = 3 => ~ENABLED handleStepNext
          /\ mv.newCarStep # 3 => ~ENABLED handleSubmitVehicle)
    /\ [][/\ handleStepNext =>
                mv.newCarStep \in {1, 2} /\ mv'.newCarStep = mv.newCarStep + 1
          /\ WizardBack =>
                IF mv.newCarStep \in {2, 3}
                THEN mv'.newCarStep = mv.newCarStep - 1 /\ mv'.view = "add"
                ELSE mv'.newCarStep = 1 /\ mv'.view = "list"
          /\ mv'.newCarStep # mv.newCarStep =>
                \/ handleStepNext
                \/ WizardBack
                \/ handleSubmitVehicle
                \/ page' # page
          /\ handleSubmitVehicle =>
                /\ mv.newCarStep = 3
                /\ mv'.newCarStep = 1 /\ mv'.view = "list"
                /\ Len(vehicles') = Len(vehicles) + 1
                /\ vehicles'[Len(vehicles')].ownerId = "current"
                /\ vehicles'[Len(vehicles')].isAvailable
                /\ vehicles'[Len(vehicles')].verificationStatus = "verified"]_vars

\* a vehicle was published: the page shows the list with it, the wizard is
\* back at step 1
C30_Witness ==
    /\ page = "my-vehicles"
    /\ mv.view = "list" /\ mv.newCarStep = 1
    /\ Len(vehicles) = Len(MOCK_VEHICLES) + 1
    /\ vehicles[Len(vehicles)].ownerId = "current"
    /\ vehicles[Len(vehicles)].isAvailable
    /\ vehicles[Len(vehicles)].id = now

====
